---- MODULE Spec2Model ----
(***************************************************************************)
(* vite-plugin-json-md: the tree walk that replaces "md:" string fields of *)
(* a parsed JSON5 document (traverseJsonNodes / handleMarkdownContent) and *)
(* the buildStart loop that reads, parses, walks and writes each file.     *)
(*                                                                         *)
(* A string is a sequence of characters; a few multi-character units that  *)
(* the walk never looks inside (a markdown link, the tags the renderer     *)
(* emits) are single elements of the sequence.                             *)
(***************************************************************************)
EXTENDS Integers, Sequences, FiniteSets, TLC

\* ---------------------------------------------------------------- bounds
\* Largest number of nodes (containers and leaves) of a generated document.
MaxNodes == 4
\* Largest number of input files the glob resolves to.
MaxFiles == 2

\* --------------------------------------------------------------- strings
\* The reserved marker "md:" (src/index.ts:142) and the "@" that follows it
\* in "md:@" (src/index.ts:168).
MdPrefix == <<"m", "d", ":">>
MdFilePrefix == <<"m", "d", ":", "@">>

\* A markdown link [l](/y), the anchor marked emits for it by default, and
\* the anchor the declared externalLinks option asks for.
LinkMd == "[l](/y)"
AnchorPlain == "<a href=\"/y\">l</a>"
AnchorBlank == "<a href=\"/y\" target=\"_blank\" rel=\"noopener noreferrer\">l</a>"
POpen == "<p>"
PClose == "</p>\n"
HtmlTags == {POpen, PClose, AnchorPlain, AnchorBlank}

\* String.prototype.startsWith
startsWith(s, p) == Len(s) >= Len(p) /\ SubSeq(s, 1, Len(p)) = p

\* String.prototype.slice(n)
slice(s, n) == IF n >= Len(s) THEN <<>> ELSE SubSeq(s, n + 1, Len(s))

\* marked(text), called without options (src/index.ts:171,175): block text
\* becomes a paragraph, each link an anchor without target/rel; the empty
\* text renders to the empty string.
marked(text) == IF text = <<>> THEN <<>> ELSE <<POpen>> \o [i \in 1..Len(text) |-> IF text[i] = LinkMd THEN AnchorPlain ELSE text[i]] \o <<PClose>>

\* path.join(markdownDir, rel): an empty rel gives the directory itself.
pathJoin(dir, rel) == IF rel = <<>> THEN dir ELSE dir \o <<"/">> \o rel

\* ------------------------------------------------------------- documents
\* A parsed JSON5 value. keys is Object.keys(value): the property names of
\* an object in insertion order, the indices of an array.
Str(s) == [t |-> "string", s |-> s, keys |-> <<>>, vals |-> <<>>]
Num == [t |-> "number", s |-> <<"1">>, keys |-> <<>>, vals |-> <<>>]
Null == [t |-> "null", s |-> <<>>, keys |-> <<>>, vals |-> <<>>]
PropNames == <<"a", "b", "c", "d", "e", "f">>
IndexNames == <<"0", "1", "2", "3", "4", "5">>
Obj(vals) == [t |-> "object", s |-> <<>>, keys |-> SubSeq(PropNames, 1, Len(vals)), vals |-> vals]
Arr(vals) == [t |-> "array", s |-> <<>>, keys |-> SubSeq(IndexNames, 1, Len(vals)), vals |-> vals]

\* typeof v === "object" && v !== null (src/index.ts:138,150-151)
\* Faulty variant: arrays are not taken for objects.
IsObjectNoArrays(v) == v.t = "object"
IsObject(v) == v.t \in {"object", "array"}

\* typeof v === "string" && v.startsWith("md:") (src/index.ts:141-142)
\* Faulty variant: the prefix is not tested.
IsMarkdownAnyString(v) == v.t = "string"
IsMarkdown(v) == v.t = "string" /\ startsWith(v.s, MdPrefix)

\* jsonObject[propertyKey]
Get(o, key) == o.vals[CHOOSE j \in 1..Len(o.keys) : o.keys[j] = key]

\* jsonObject[propertyKey] = value
Set(o, key, value) == [o EXCEPT !.vals[CHOOSE j \in 1..Len(o.keys) : o.keys[j] = key] = value]

\* The markdown directory and the files under it.
MarkdownDir == <<"md">>
MdFileX == <<"md", "/", "x">>

VARIABLES
    mdFiles,        \* the files under markdownDir: path -> contents
    phase,          \* "input" before the call of traverseJsonNodes, "walked" after
    document,       \* the document as parsed, before the walk
    callArgs,       \* the parseMarkdown and externalLinks arguments of the call
    walked,         \* the outcome of the call: the document in memory and what the call did
    options,        \* the options given to jsonMdPlugin
    pc,             \* where buildStart is
    rejectedBy,     \* the step whose throw rejected buildStart, "" while none has
    resolvedFiles,  \* the paths the glob resolved to
    fileIndex,      \* the position of the for loop in resolvedFiles
    fileContent,    \* the text read from the current file
    written,        \* the calls of fs.writeFileSync so far
    steps           \* the steps buildStart has completed, in order

walkVars == <<mdFiles, phase, document, callArgs, walked>>
buildVars == <<options, pc, rejectedBy, resolvedFiles, fileIndex, fileContent, written, steps>>
vars == <<mdFiles, phase, document, callArgs, walked, options, pc, rejectedBy, resolvedFiles, fileIndex, fileContent, written, steps>>

\* ------------------------------------------------------------ the walk
\* What a call has done so far: thrown once fs.readFileSync has thrown;
\* visits, the path of every property the forEach callback was called for;
\* writes, every assignment jsonObject[propertyKey] = ...; reads, every path
\* given to fs.readFileSync; renders, every text given to marked. A read and
\* a render carry the property they were made for.
NoEffects == [thrown |-> FALSE, visits |-> <<>>, writes |-> <<>>, reads |-> <<>>, renders |-> <<>>]

\* fs.readFileSync(mdPath, "utf-8") (src/index.ts:170): throws unless mdPath
\* is a file.
\* Faulty variant: the path is returned in place of the contents, and nothing throws.
readFileSyncEchoesPath(mdPath) == [thrown |-> FALSE, data |-> mdPath]
readFileSync(mdPath) == IF mdPath \in DOMAIN mdFiles THEN [thrown |-> FALSE, data |-> mdFiles[mdPath]] ELSE [thrown |-> TRUE, data |-> <<>>]

\* parseMarkdown ? marked(text) : text (src/index.ts:171,174-176)
\* Faulty variant: parseMarkdown is ignored.
renderAlways(text, parseMarkdown) == [value |-> marked(text), renders |-> <<text>>]
render(text, parseMarkdown) == IF parseMarkdown THEN [value |-> marked(text), renders |-> <<text>>] ELSE [value |-> text, renders |-> <<>>]

\* content.slice(3), the inline markdown (src/index.ts:175-176)
\* Faulty variants: one character too many is cut; the marker is kept.
inlineTextSliceFour(content) == slice(content, 4)
inlineTextKeepsMarker(content) == content
inlineText(content) == slice(content, 3)

\* handleMarkdownContent (src/index.ts:162-177)
handleMarkdownContent(content, markdownDir, parseMarkdown) ==
    IF startsWith(content, MdFilePrefix)
    THEN LET mdPath == pathJoin(markdownDir, slice(content, 4))
             mdContent == readFileSync(mdPath)
         IN IF mdContent.thrown
            THEN [thrown |-> TRUE, value |-> <<>>, reads |-> <<mdPath>>, renders |-> <<>>]
            ELSE [thrown |-> FALSE,
                  value |-> render(mdContent.data, parseMarkdown).value,
                  reads |-> <<mdPath>>,
                  renders |-> render(mdContent.data, parseMarkdown).renders]
    ELSE [thrown |-> FALSE,
          value |-> render(inlineText(content), parseMarkdown).value,
          reads |-> <<>>,
          renders |-> render(inlineText(content), parseMarkdown).renders]

\* The reads or renders of one call of handleMarkdownContent, each with the
\* property the call was made for.
For(field, texts) == [j \in 1..Len(texts) |-> [text |-> texts[j], field |-> field]]

RECURSIVE traverseJsonNodes(_, _, _, _, _)
RECURSIVE forEachKey(_, _, _, _, _, _, _)

\* The forEach callback of traverseJsonNodes (src/index.ts:139-155) for the
\* keys from index i on; a throw ends the loop and every enclosing one.
forEachKey(jsonObject, keys, i, markdownDir, parseMarkdown, path, eff) ==
    IF i > Len(keys) \/ eff.thrown
    THEN [obj |-> jsonObject, eff |-> eff]
    ELSE LET propertyKey == keys[i]
             v == Get(jsonObject, propertyKey)
             here == path \o <<propertyKey>>
             seen == [eff EXCEPT !.visits = Append(@, here)]
         IN IF IsMarkdown(v)
            THEN LET r == handleMarkdownContent(v.s, markdownDir, parseMarkdown)
                     after == [seen EXCEPT !.reads = @ \o For(here, r.reads), !.renders = @ \o For(here, r.renders)]
                 IN IF r.thrown
                    THEN [obj |-> jsonObject, eff |-> [after EXCEPT !.thrown = TRUE]]
                    ELSE forEachKey(Set(jsonObject, propertyKey, Str(r.value)), keys, i + 1, markdownDir, parseMarkdown, path,
                                    [after EXCEPT !.writes = Append(@, [path |-> here, value |-> Str(r.value)])])
            ELSE IF IsObject(v)
            THEN LET sub == traverseJsonNodes(v, markdownDir, parseMarkdown, here, seen)
                 IN forEachKey([jsonObject EXCEPT !.vals[i] = sub.obj], keys, i + 1, markdownDir, parseMarkdown, path, sub.eff)
            ELSE forEachKey(jsonObject, keys, i + 1, markdownDir, parseMarkdown, path, seen)

\* traverseJsonNodes (src/index.ts:133-157); the nested object is mutated
\* in place, which here is the parent holding the mutated child.
traverseJsonNodes(jsonObject, markdownDir, parseMarkdown, path, eff) ==
    IF IsObject(jsonObject)
    THEN forEachKey(jsonObject, jsonObject.keys, 1, markdownDir, parseMarkdown, path, eff)
    ELSE [obj |-> jsonObject, eff |-> eff]

\* ------------------------------------------------------ input documents
Leaves == {Str(<<"x">>), Str(<<"m", "d">>), Str(MdPrefix \o <<LinkMd>>), Str(MdPrefix \o MdPrefix \o <<"x">>),
           Str(MdFilePrefix \o <<"x">>), Str(MdFilePrefix \o <<"y">>), Num, Null}

RECURSIVE Trees(_)
RECURSIVE Forests(_)
\* The documents of exactly n nodes, and the sequences of documents of n nodes in all.
Trees(n) == IF n = 1 THEN Leaves \cup {Obj(<<>>), Arr(<<>>)} ELSE LET below == Forests(n - 1) IN {Obj(f) : f \in below} \cup {Arr(f) : f \in below}
Forests(n) == IF n = 0 THEN {<<>>} ELSE UNION {{<<t>> \o f : t \in Trees(k), f \in Forests(n - k)} : k \in 1..n}

\* The scenarios of the README and of the specification.
ScenarioDocs == {Obj(<<Obj(<<Arr(<<Str(MdPrefix \o <<"x">>), Num, Null>>)>>)>>),
                 Obj(<<Str(MdPrefix), Str(MdFilePrefix)>>)}

\* The documents of at most n nodes, and the scenarios.
Docs(n) == UNION {Trees(k) : k \in 1..n} \cup ScenarioDocs

FileContents == {<<"x", LinkMd>>, MdPrefix \o <<"x">>}

\* ------------------------------------------------- the walk on its own
\* An option of JsonMdPluginOptions: <<>> when omitted, <<b>> when given as b.
Given == {<<>>, <<TRUE>>, <<FALSE>>}
NoOptions == [parseMarkdown |-> <<>>, convertToJson |-> <<>>, minify |-> <<>>, externalLinks |-> <<>>]
NoText == [ok |-> FALSE, doc |-> Null]

InitWalk ==
    /\ mdFiles \in {[p \in {MdFileX} |-> c] : c \in FileContents}
    /\ document \in Docs(MaxNodes)
    /\ phase = "input"
    /\ callArgs = [parseMarkdown |-> TRUE, externalLinks |-> FALSE]
    /\ walked = [obj |-> document, eff |-> NoEffects]
    /\ options = NoOptions
    /\ pc = "direct"
    /\ rejectedBy = ""
    /\ resolvedFiles = <<>>
    /\ fileIndex = 0
    /\ fileContent = NoText
    /\ written = <<>>
    /\ steps = <<>>

\* A call traverseJsonNodes(document, markdownDir, parseMarkdown, externalLinks);
\* the function has three parameters (src/index.ts:133-137) and a fourth
\* argument is dropped.
CallTraverse ==
    /\ pc = "direct"
    /\ phase = "input"
    /\ \E parseMarkdown \in BOOLEAN, externalLinks \in BOOLEAN :
          /\ callArgs' = [parseMarkdown |-> parseMarkdown, externalLinks |-> externalLinks]
          /\ walked' = traverseJsonNodes(document, MarkdownDir, parseMarkdown, <<>>, NoEffects)
    /\ phase' = "walked"
    /\ UNCHANGED <<mdFiles, document>>
    /\ UNCHANGED buildVars

NextWalk == CallTraverse

SpecWalk == InitWalk /\ [][NextWalk]_vars

\* --------------------------------------------------------- buildStart
\* The destructuring of the options with its defaults (src/index.ts:81-89).
Default(given, byDefault) == IF given = <<>> THEN byDefault ELSE given[1]
parseMarkdownOf(opts) == Default(opts.parseMarkdown, TRUE)
convertToJsonOf(opts) == Default(opts.convertToJson, TRUE)
minifyOf(opts) == Default(opts.minify, FALSE)

\* The input files the glob can resolve to, and what they can hold: text
\* that JSON5.parse rejects, or the JSON5 text of a document.
Extensions == {"json5", "jsonc", "json"}
InputPaths == {[base |-> "en/a", ext |-> e] : e \in Extensions}
RECURSIVE SeqsUpTo(_, _)
SeqsUpTo(S, n) == IF n = 0 THEN {<<>>} ELSE SeqsUpTo(S, n - 1) \cup {Append(q, x) : q \in {r \in SeqsUpTo(S, n - 1) : Len(r) = n - 1}, x \in S}
FileDocs == {Obj(<<Str(<<"x">>)>>),
             Obj(<<Str(MdPrefix \o <<LinkMd>>), Str(MdFilePrefix \o <<"y">>)>>),
             Obj(<<Str(MdFilePrefix \o <<"y">>), Str(MdPrefix \o <<LinkMd>>)>>),
             Obj(<<Obj(<<Arr(<<Str(MdFilePrefix \o <<"x">>), Num, Null>>)>>)>>)}
FileTexts == {NoText} \cup {[ok |-> TRUE, doc |-> d] : d \in FileDocs}

\* The state after jsonMdPlugin(options) has returned the plugin.
Init ==
    /\ mdFiles = [p \in {MdFileX} |-> <<"x", LinkMd>>]
    /\ options \in [parseMarkdown : Given, convertToJson : Given, minify : {<<>>, <<TRUE>>}, externalLinks : {<<>>}]
    /\ pc = "idle"
    /\ rejectedBy = ""
    /\ resolvedFiles = <<>>
    /\ fileIndex = 0
    /\ fileContent = NoText
    /\ written = <<>>
    /\ steps = <<>>
    /\ phase = "input"
    /\ document = Null
    /\ callArgs = [parseMarkdown |-> TRUE, externalLinks |-> FALSE]
    /\ walked = [obj |-> Null, eff |-> NoEffects]

\* The for loop moves to the next file, or ends (src/index.ts:101).
LoopAt(k) == IF k > Len(resolvedFiles) THEN "done" ELSE "read"

\* buildStart begins: the glob patterns resolve (src/index.ts:95-99).
Resolve ==
    /\ pc = "idle"
    /\ \E files \in SeqsUpTo(InputPaths, MaxFiles) :
          /\ resolvedFiles' = files
          /\ pc' = IF Len(files) = 0 THEN "done" ELSE "read"
    /\ fileIndex' = 1
    /\ UNCHANGED <<options, rejectedBy, fileContent, written, steps>>
    /\ UNCHANGED walkVars

\* glob rejects, and with it Promise.all and buildStart.
ResolveFails ==
    /\ pc = "idle"
    /\ pc' = "rejected"
    /\ rejectedBy' = "glob"
    /\ UNCHANGED <<options, resolvedFiles, fileIndex, fileContent, written, steps>>
    /\ UNCHANGED walkVars

\* fs.readFileSync(filePath, "utf-8") (src/index.ts:102)
ReadFile ==
    /\ pc = "read"
    /\ \E text \in FileTexts : fileContent' = text
    /\ pc' = "parse"
    /\ steps' = Append(steps, [op |-> "read", file |-> fileIndex])
    /\ UNCHANGED <<options, rejectedBy, resolvedFiles, fileIndex, written>>
    /\ UNCHANGED walkVars

\* Faulty variant: an unreadable file is skipped and the loop goes on.
ReadFileSkips ==
    /\ pc = "read"
    /\ fileIndex' = fileIndex + 1
    /\ pc' = LoopAt(fileIndex + 1)
    /\ UNCHANGED <<options, rejectedBy, resolvedFiles, fileContent, written, steps>>
    /\ UNCHANGED walkVars
ReadFileFails ==
    /\ pc = "read"
    /\ pc' = "rejected"
    /\ rejectedBy' = "read"
    /\ UNCHANGED <<options, resolvedFiles, fileIndex, fileContent, written, steps>>
    /\ UNCHANGED walkVars

\* JSON5.parse(fileContent) (src/index.ts:103)
Parse ==
    /\ pc = "parse"
    /\ fileContent.ok
    /\ document' = fileContent.doc
    /\ walked' = [obj |-> fileContent.doc, eff |-> NoEffects]
    /\ phase' = "input"
    /\ pc' = "walk"
    /\ steps' = Append(steps, [op |-> "parse", file |-> fileIndex])
    /\ UNCHANGED <<options, rejectedBy, resolvedFiles, fileIndex, fileContent, written>>
    /\ UNCHANGED <<mdFiles, callArgs>>

ParseFails ==
    /\ pc = "parse"
    /\ ~fileContent.ok
    /\ pc' = "rejected"
    /\ rejectedBy' = "parse"
    /\ UNCHANGED <<options, resolvedFiles, fileIndex, fileContent, written, steps>>
    /\ UNCHANGED walkVars

\* traverseJsonNodes(parsedData, markdownDir, parseMarkdown) (src/index.ts:106);
\* a throw of the walk leaves the loop and rejects buildStart.
\* Faulty variant: a throw of the walk is swallowed.
AfterWalkSwallows(outcome) == "write"
AfterWalk(outcome) == IF outcome.eff.thrown THEN "rejected" ELSE "write"
Walk ==
    /\ pc = "walk"
    /\ LET outcome == traverseJsonNodes(walked.obj, MarkdownDir, parseMarkdownOf(options), <<>>, NoEffects)
       IN /\ walked' = outcome
          /\ pc' = AfterWalk(outcome)
          /\ rejectedBy' = IF AfterWalk(outcome) = "rejected" THEN "walk" ELSE rejectedBy
          /\ steps' = IF AfterWalk(outcome) = "rejected" THEN steps ELSE Append(steps, [op |-> "walk", file |-> fileIndex])
    /\ callArgs' = [parseMarkdown |-> parseMarkdownOf(options), externalLinks |-> FALSE]
    /\ phase' = "walked"
    /\ UNCHANGED <<options, resolvedFiles, fileIndex, fileContent, written>>
    /\ UNCHANGED <<mdFiles, document>>

\* The serializer, the output path and the write (src/index.ts:108-124).
stringifyOf(opts) == IF convertToJsonOf(opts) THEN "JSON.stringify" ELSE "JSON5.stringify"
finalOutputPath(opts, filePath) == IF convertToJsonOf(opts) /\ filePath.ext \in {"json5", "jsonc"} THEN [filePath EXCEPT !.ext = "json"] ELSE filePath
WriteFile ==
    /\ pc = "write"
    /\ written' = Append(written, [path |-> finalOutputPath(options, resolvedFiles[fileIndex]),
                                   stringify |-> stringifyOf(options),
                                   indent |-> IF minifyOf(options) THEN 0 ELSE 2,
                                   data |-> walked.obj,
                                   file |-> fileIndex])
    /\ steps' = Append(steps, [op |-> "write", file |-> fileIndex])
    /\ fileIndex' = fileIndex + 1
    /\ pc' = LoopAt(fileIndex + 1)
    /\ UNCHANGED <<options, rejectedBy, resolvedFiles, fileContent>>
    /\ UNCHANGED walkVars

\* fs.mkdirSync or fs.writeFileSync throws (src/index.ts:118-124).
WriteFileFails ==
    /\ pc = "write"
    /\ pc' = "rejected"
    /\ rejectedBy' = "write"
    /\ UNCHANGED <<options, resolvedFiles, fileIndex, fileContent, written, steps>>
    /\ UNCHANGED walkVars

Next ==
    \/ Resolve
    \/ ResolveFails
    \/ ReadFile
    \/ ReadFileFails
    \/ Parse
    \/ ParseFails
    \/ Walk
    \/ WriteFile
    \/ WriteFileFails

Spec == Init /\ [][Next]_vars

\* ================================================================ claims
\* What the claims speak of, defined on the documents alone.
IsContainer(v) == v.t \in {"object", "array"}
HasPrefix(s, p) == Len(s) >= Len(p) /\ \A j \in 1..Len(p) : s[j] = p[j]
Rest(s, n) == SubSeq(s, n + 1, Len(s))
IsMarkupField(v) == v.t = "string" /\ HasPrefix(v.s, MdPrefix)
IsExternalField(v) == IsMarkupField(v) /\ Len(v.s) >= 4 /\ v.s[4] = "@"
IsInlineField(v) == IsMarkupField(v) /\ ~IsExternalField(v)
ExternalFile(v) == IF Len(v.s) = 4 THEN MarkdownDir ELSE MarkdownDir \o <<"/">> \o Rest(v.s, 4)
SourceText(v) == IF IsExternalField(v) THEN mdFiles[ExternalFile(v)] ELSE Rest(v.s, 3)
Rendered(text, parseMarkdown) == IF parseMarkdown THEN marked(text) ELSE text

RECURSIVE NodeAt(_, _)
NodeAt(d, p) == IF p = <<>> THEN d ELSE NodeAt(d.vals[CHOOSE j \in 1..Len(d.keys) : d.keys[j] = Head(p)], Tail(p))
RECURSIVE FieldPaths(_)
FieldPaths(d) == IF ~IsContainer(d) THEN {} ELSE UNION {{<<d.keys[j]>>} \cup {<<d.keys[j]>> \o q : q \in FieldPaths(d.vals[j])} : j \in 1..Len(d.keys)}
Range(q) == {q[j] : j \in 1..Len(q)}
NoDuplicates(q) == \A j, k \in 1..Len(q) : q[j] = q[k] => j = k
PathsOf(q) == [j \in 1..Len(q) |-> q[j].path]
FieldsOf(q) == [j \in 1..Len(q) |-> q[j].field]
MarkupPaths(d) == {p \in FieldPaths(d) : IsMarkupField(NodeAt(d, p))}
UnreadablePaths(d) == {p \in FieldPaths(d) : IsExternalField(NodeAt(d, p)) /\ ExternalFile(NodeAt(d, p)) \notin DOMAIN mdFiles}

\* The call of traverseJsonNodes has ended; it has returned without a throw.
Walked == phase = "walked"
Returned == phase = "walked" /\ ~walked.eff.thrown

\* C1: after traverseJsonNodes returns, every string field, at any depth,
\* that begins with "md:" not followed by "@" equals the render of the value
\* without its first 3 characters, and no file was read for that field.
C1_InlineRendered ==
    Returned => \A p \in FieldPaths(document) :
        IsInlineField(NodeAt(document, p)) =>
            /\ NodeAt(walked.obj, p) = Str(Rendered(Rest(NodeAt(document, p).s, 3), callArgs.parseMarkdown))
            /\ p \notin Range(FieldsOf(walked.eff.reads))

\* An inline field below the top level has been rendered, with and without
\* another one beside it.
C1_Witness ==
    /\ Returned
    /\ callArgs.parseMarkdown
    /\ \E p \in FieldPaths(document) : Len(p) >= 2 /\ IsInlineField(NodeAt(document, p)) /\ NodeAt(walked.obj, p) = Str(<<POpen, AnchorPlain, PClose>>)

\* C2: after traverseJsonNodes returns, every string field that begins with
\* "md:@" has a readable file at markdownDir joined with the rest, equals
\* the render of that file's contents, one read was made for it, of that
\* file, and what was rendered for it is the contents, never the path; and
\* the walk returns when every such file of the document is readable.
C2_ExternalRendered ==
    /\ Returned => \A p \in FieldPaths(document) :
           IsExternalField(NodeAt(document, p)) =>
               /\ ExternalFile(NodeAt(document, p)) \in DOMAIN mdFiles
               /\ NodeAt(walked.obj, p) = Str(Rendered(mdFiles[ExternalFile(NodeAt(document, p))], callArgs.parseMarkdown))
               /\ \E j \in 1..Len(walked.eff.reads) :
                      /\ walked.eff.reads[j] = [text |-> ExternalFile(NodeAt(document, p)), field |-> p]
                      /\ \A k \in 1..Len(walked.eff.reads) : walked.eff.reads[k].field = p => k = j
               /\ \A j \in 1..Len(walked.eff.renders) :
                      walked.eff.renders[j].field = p => walked.eff.renders[j].text = mdFiles[ExternalFile(NodeAt(document, p))]
    /\ (Walked /\ UnreadablePaths(document) = {}) => ~walked.eff.thrown

\* An external field with a readable file has been replaced by the render of
\* the file's contents.
C2_Witness ==
    /\ Returned
    /\ callArgs.parseMarkdown
    /\ \E p \in FieldPaths(document) :
          /\ NodeAt(document, p) = Str(MdFilePrefix \o <<"x">>)
          /\ NodeAt(walked.obj, p) = Str(marked(mdFiles[MdFileX]))

\* The frame of the walk: b before, a after.
RECURSIVE Frame(_, _)
Frame(b, a) ==
    IF IsMarkupField(b) THEN a.t = "string"
    ELSE IF IsContainer(b) THEN a.t = b.t /\ a.keys = b.keys /\ Len(a.vals) = Len(b.vals) /\ \A j \in 1..Len(b.vals) : Frame(b.vals[j], a.vals[j])
    ELSE a = b

\* C4: whether the walk returns or throws, it changes nothing but the values
\* of string fields that begin with "md:": every other value is identical,
\* every mapping keeps its keys in order, every sequence its length and
\* order, no container is assigned to, and a document without such a
\* string is equal to its input.
C4_Frame ==
    Walked =>
        /\ Frame(document, walked.obj)
        /\ \A j \in 1..Len(walked.eff.writes) : IsMarkupField(NodeAt(document, walked.eff.writes[j].path))
        /\ (MarkupPaths(document) = {} => walked.obj = document)

\* A document with a markup field, a plain string and a nested container
\* has been walked, and only the markup field differs.
C4_Witness ==
    /\ Returned
    /\ walked.obj # document
    /\ \E p, q, r \in FieldPaths(document) :
          /\ IsMarkupField(NodeAt(document, p))
          /\ NodeAt(document, q) = Str(<<"x">>) /\ NodeAt(walked.obj, q) = Str(<<"x">>)
          /\ IsContainer(NodeAt(document, r))

\* C5: with parseMarkdown false the renderer is never called, every value
\* assigned is the raw resolved text (the inline text after "md:", or the
\* exact file contents) and holds no tag that text does not hold, and after
\* the walk returns every markup field holds that text.
C5_ParseMarkdownFalse ==
    (Walked /\ ~callArgs.parseMarkdown) =>
        /\ walked.eff.renders = <<>>
        /\ \A j \in 1..Len(walked.eff.writes) :
              LET w == walked.eff.writes[j]
              IN /\ w.value = Str(SourceText(NodeAt(document, w.path)))
                 /\ Range(w.value.s) \cap HtmlTags \subseteq Range(SourceText(NodeAt(document, w.path)))
        /\ (~walked.eff.thrown => \A p \in MarkupPaths(document) : NodeAt(walked.obj, p) = Str(SourceText(NodeAt(document, p))))

\* An inline and an external field have both been replaced by their raw text.
C5_Witness ==
    /\ Returned
    /\ ~callArgs.parseMarkdown
    /\ \E p, q \in FieldPaths(document) :
          /\ NodeAt(document, p) = Str(MdPrefix \o <<LinkMd>>) /\ NodeAt(walked.obj, p) = Str(<<LinkMd>>)
          /\ NodeAt(document, q) = Str(MdFilePrefix \o <<"x">>) /\ NodeAt(walked.obj, q) = Str(mdFiles[MdFileX])

\* C6: with parseMarkdown true, every hyperlink of every rendered field
\* carries target="_blank" rel="noopener noreferrer" when externalLinks is
\* true, and none does when it is false.
C6_LinkRewriting ==
    (Returned /\ callArgs.parseMarkdown) =>
        \A j \in 1..Len(walked.eff.writes) :
            /\ callArgs.externalLinks => AnchorPlain \notin Range(walked.eff.writes[j].value.s)
            /\ ~callArgs.externalLinks => AnchorBlank \notin Range(walked.eff.writes[j].value.s)

\* Every string of a document, the document itself included.
RECURSIVE Strings(_)
Strings(d) == IF d.t = "string" THEN {d.s} ELSE UNION {Strings(d.vals[j]) : j \in 1..Len(d.vals)}

\* C7 as stated: each field is assigned at most once and, after the walk
\* returns, no string of the document begins with "md:", whatever
\* parseMarkdown and the files hold.
C7_MarkerNeverInOutput ==
    /\ Walked => NoDuplicates(PathsOf(walked.eff.writes))
    /\ Returned => \A str \in Strings(walked.obj) : ~HasPrefix(str, MdPrefix)

\* C7 as amended: each field is assigned at most once; after the walk
\* returns each markup field holds the render of its raw resolved text, the
\* marker stripped once, and a string field begins with "md:" exactly where
\* parseMarkdown is false and that raw text itself begins with "md:".
C7_MarkerOnlyFromRawText ==
    /\ Walked => NoDuplicates(PathsOf(walked.eff.writes))
    /\ Returned => \A p \in FieldPaths(document) :
           /\ IsMarkupField(NodeAt(document, p)) =>
                  NodeAt(walked.obj, p) = Str(Rendered(SourceText(NodeAt(document, p)), callArgs.parseMarkdown))
           /\ IsMarkupField(NodeAt(walked.obj, p)) <=>
                  /\ IsMarkupField(NodeAt(document, p))
                  /\ ~callArgs.parseMarkdown
                  /\ HasPrefix(SourceText(NodeAt(document, p)), MdPrefix)

\* With parseMarkdown false, "md:md:x" has become "md:x" and, beside or
\* apart from it, a file that begins with "md:" has been copied in.
C7_Witness ==
    /\ Returned
    /\ ~callArgs.parseMarkdown
    /\ \E p \in FieldPaths(document) :
          /\ NodeAt(document, p) = Str(MdPrefix \o MdPrefix \o <<"x">>)
          /\ NodeAt(walked.obj, p) = Str(MdPrefix \o <<"x">>)

\* C9: the walk ends for every document; it visits no property twice and
\* only properties of the document as it was (nothing below a string, a
\* number or null, nothing of a replacement), assigns only to markup
\* fields, each at most once, and resolves each at most once; when it
\* returns it has visited every property, so every string field exactly
\* once, and replaced every markup field.
C9_CompleteSingleVisit ==
    Walked =>
        /\ NoDuplicates(walked.eff.visits)
        /\ Range(walked.eff.visits) \subseteq FieldPaths(document)
        /\ NoDuplicates(PathsOf(walked.eff.writes))
        /\ Range(PathsOf(walked.eff.writes)) \subseteq MarkupPaths(document)
        /\ NoDuplicates(FieldsOf(walked.eff.reads))
        /\ NoDuplicates(FieldsOf(walked.eff.renders))
        /\ (~walked.eff.thrown =>
              /\ Range(walked.eff.visits) = FieldPaths(document)
              /\ Range(PathsOf(walked.eff.writes)) = MarkupPaths(document))

\* The scenario {"a": {"b": ["md:x", 1, null]}}: index 0 is replaced, 1 and
\* null are visited and left alone.
C9_Witness ==
    /\ Returned
    /\ callArgs.parseMarkdown
    /\ document = Obj(<<Obj(<<Arr(<<Str(MdPrefix \o <<"x">>), Num, Null>>)>>)>>)
    /\ walked.obj = Obj(<<Obj(<<Arr(<<Str(<<POpen, "x", PClose>>), Num, Null>>)>>)>>)
    /\ Len(walked.eff.visits) = 5

\* C3 as stated: a document with an "md:@" field whose file cannot be read
\* makes the walk throw, and then no field of the document has been
\* replaced in what the caller holds and no output is written for it.
C3_NoPartialMutation ==
    /\ (pc \notin {"direct", "idle"} /\ Walked /\ UnreadablePaths(document) # {}) => rejectedBy = "walk"
    /\ rejectedBy = "walk" =>
          /\ walked.obj = document
          /\ \A j \in 1..Len(written) : written[j].file # fileIndex

\* C3 as amended: such a document makes the walk throw and buildStart
\* reject, and no output is written for it; in the document the caller
\* holds, the markup fields visited before the failing field have been
\* replaced by their renders, and the failing field and every field not
\* yet visited are as they were.
C3_AbortedWalk ==
    /\ (pc \notin {"direct", "idle"} /\ Walked /\ UnreadablePaths(document) # {}) =>
          walked.eff.thrown /\ pc = "rejected" /\ rejectedBy = "walk"
    /\ rejectedBy = "walk" =>
          /\ walked.eff.thrown
          /\ \A j \in 1..Len(written) : written[j].file < fileIndex
          /\ LET failing == walked.eff.visits[Len(walked.eff.visits)]
             IN /\ failing \in UnreadablePaths(document)
                /\ \A p \in FieldPaths(document) :
                      /\ (p \in MarkupPaths(document) /\ p \in Range(walked.eff.visits) /\ p # failing) =>
                             NodeAt(walked.obj, p) = Str(Rendered(SourceText(NodeAt(document, p)), callArgs.parseMarkdown))
                      /\ (p = failing \/ p \notin Range(walked.eff.visits)) =>
                             NodeAt(walked.obj, p) = NodeAt(document, p)

\* The second file's walk has thrown on its second field: the first field is
\* already replaced in memory, the first file's output is written, and
\* nothing is written for the second.
C3_Witness ==
    /\ rejectedBy = "walk"
    /\ fileIndex = 2
    /\ Len(written) = 1
    /\ document = Obj(<<Str(MdPrefix \o <<LinkMd>>), Str(MdFilePrefix \o <<"y">>)>>)
    /\ walked.obj # document

\* C8: with convertToJson omitted every output is serialized by
\* JSON5.stringify and keeps its path; JSON.stringify and the rewrite of the
\* extension to .json happen only when convertToJson is given as true.
C8_ConvertToJsonDefaultsFalse ==
    \A j \in 1..Len(written) :
        /\ options.convertToJson = <<>> =>
              written[j].stringify = "JSON5.stringify" /\ written[j].path = resolvedFiles[written[j].file]
        /\ (written[j].stringify = "JSON.stringify" \/ written[j].path # resolvedFiles[written[j].file]) =>
              options.convertToJson = <<TRUE>>

\* The steps of one file, in order.
StepOps == <<"read", "parse", "walk", "write">>
StepsOfFile(k) == {steps[j].op : j \in {i \in 1..Len(steps) : steps[i].file = k}}

\* C10, in every state: the completed steps are read, parse, walk, write of
\* file 1, then of file 2, and so on; the j-th write is the output of file j;
\* once the read, parse or walk of file k has thrown, buildStart is
\* rejected, the outputs of the files before k are written, and k has only
\* the steps before the one that threw, and no later file has any.
C10_PipelineState ==
    /\ \A j \in 1..Len(steps) : steps[j] = [op |-> StepOps[((j - 1) % 4) + 1], file |-> ((j - 1) \div 4) + 1]
    /\ \A j \in 1..Len(written) :
          /\ written[j].file = j
          /\ written[j].path.base = resolvedFiles[j].base
          /\ StepsOfFile(j) = {"read", "parse", "walk", "write"}
    /\ Len(written) = Cardinality({j \in 1..Len(steps) : steps[j].op = "write"})
    /\ pc = "done" => Len(written) = Len(resolvedFiles)
    /\ rejectedBy \in {"read", "parse", "walk"} =>
          /\ pc = "rejected"
          /\ Len(written) = fileIndex - 1
          /\ \A j \in 1..Len(steps) : steps[j].file <= fileIndex
          /\ StepsOfFile(fileIndex) = (CASE rejectedBy = "read" -> {} [] rejectedBy = "parse" -> {"read"} [] OTHER -> {"read", "parse"})

\* C10: the state part always, and in every step: buildStart was not
\* rejected before it, and the writes made so far stay as they are.
C10_SequentialPipeline ==
    /\ []C10_PipelineState
    /\ [][pc # "rejected" /\ Len(written') >= Len(written) /\ SubSeq(written', 1, Len(written)) = written]_vars

\* The parse of the second file has thrown after the first file was written.
C10_Witness ==
    /\ rejectedBy = "parse"
    /\ fileIndex = 2
    /\ Len(written) = 1
    /\ Len(resolvedFiles) = 2

====
